---- MODULE Spec2Model ----
(***************************************************************************)
(* Model of the MemoryAllocator class of memory-allocator.py: a ledger of  *)
(* memory blocks over one address space, first-fit allocation with block   *)
(* splitting, deallocation with coalescing of adjacent free blocks.        *)
(* Python lists are 0-based; the sequences here are 1-based, so the block  *)
(* at Python index i is memory[i + 1].                                     *)
(***************************************************************************)
EXTENDS Integers, Sequences, FiniteSets, TLC

VARIABLES
    memory,             \* MemoryAllocator.memory, the ledger of blocks
    total_memory_size,  \* MemoryAllocator.total_memory_size
    used_memory,        \* MemoryAllocator.used_memory
    op,                 \* the public method called last
    arg_size,           \* its size argument (0 when it has none)
    arg_id,             \* its process_id argument ("" when it has none)
    result,             \* what it returned: <<ok, code>>, <<ok>>, the stats tuple or <<>> for None
    calls,              \* number of public calls made since construction
    prev_memory,        \* the ledger as it was when the last call was made
    prev_used,          \* used_memory as it was when the last call was made
    pc,                 \* "idle" between calls, "merge" inside the while loop of
                        \* merge_adjacent_free_blocks when it is run iteration by iteration
    merge_i,            \* the index i of that loop (1-based), 0 outside it
    iterations          \* the iterations that loop has made so far, 0 outside it

vars == <<memory, total_memory_size, used_memory, op, arg_size, arg_id, result, calls,
          prev_memory, prev_used, pc, merge_i, iterations>>

(* ---------------------------------------------------------------------- *)
(* Bounds and inputs of the exploration                                    *)
(* ---------------------------------------------------------------------- *)

\* length of the call sequences explored
MaxCalls == 4

\* sizes requested of allocate_memory: non-positive, splitting (3, 10),
\* exact (124 in the seed ledger) and larger than every seed free block (125)
Sizes == {0, 3, 10, 124, 125}

\* identifiers given to allocate_memory / deallocate_memory: the empty
\* string, the four seed owners and one owner the seed does not have
ProcessIds == {"", "Process-A", "Process-B", "Process-C", "Process-D", "Process-E"}

\* the requests of the seed scenarios: 10 KB for Process-E, 125 KB for
\* Process-F, 3 KB, and the release of the neighbours Process-B and Process-C
ScenarioSizes == {3, 10, 125}
ScenarioAllocIds == {"Process-E", "Process-F"}
ScenarioFreeIds == {"Process-B", "Process-C", "Process-E", "Process-F"}

(* ---------------------------------------------------------------------- *)
(* MemoryBlock and the seed layout                                         *)
(* ---------------------------------------------------------------------- *)

MemoryBlock(start_address, block_size, is_allocated, pid) ==
    [start_address |-> start_address, size |-> block_size,
     allocated |-> is_allocated, process_id |-> pid]

initial_layout ==
    << <<2, FALSE, "">>,
       <<120, TRUE, "Process-A">>,
       <<20, FALSE, "">>,
       <<150, TRUE, "Process-B">>,
       <<160, TRUE, "Process-C">>,
       <<1, FALSE, "">>,
       <<4, FALSE, "">>,
       <<554, TRUE, "Process-D">>,
       <<124, FALSE, "">> >>

\* the loop of initialize_memory, from layout entry k on, threading the
\* ledger built so far, used_memory and current_address
RECURSIVE initialize_loop(_, _, _, _)
initialize_loop(k, mem, used, current_address) ==
    IF k > Len(initial_layout)
    THEN [memory |-> mem, used_memory |-> used, total_memory_size |-> current_address]
    ELSE LET e == initial_layout[k]
         IN  initialize_loop(k + 1,
                             Append(mem, MemoryBlock(current_address, e[1], e[2], e[3])),
                             IF e[2] THEN used + e[1] ELSE used,
                             current_address + e[1])

initialize_memory == initialize_loop(1, <<>>, 0, 0)

(* ---------------------------------------------------------------------- *)
(* Helpers over a ledger                                                   *)
(* ---------------------------------------------------------------------- *)

RECURSIVE SumSizes(_)
SumSizes(mem) == IF mem = <<>> THEN 0 ELSE Head(mem).size + SumSizes(Tail(mem))

\* process_exists with the scan never matching
process_exists_never(mem, process_id) == FALSE

process_exists(mem, process_id) ==
    \E i \in DOMAIN mem : mem[i].allocated /\ mem[i].process_id = process_id

\* the search loop of allocate_memory: the first index from i on whose block
\* is free and large enough, 0 when the loop ends without a break
RECURSIVE first_fit_from(_, _, _)
first_fit_from(mem, size, i) ==
    IF i > Len(mem) THEN 0
    ELSE IF ~mem[i].allocated /\ mem[i].size >= size THEN i
    ELSE first_fit_from(mem, size, i + 1)

\* the search loop with > in place of >=
RECURSIVE first_fit_from_strict(_, _, _)
first_fit_from_strict(mem, size, i) ==
    IF i > Len(mem) THEN 0
    ELSE IF ~mem[i].allocated /\ mem[i].size > size THEN i
    ELSE first_fit_from_strict(mem, size, i + 1)

first_fit_strict(mem, size) == first_fit_from_strict(mem, size, 1)

\* the search choosing the free block of least slack (first such block on ties)
RECURSIVE best_fit_from(_, _, _, _)
best_fit_from(mem, size, i, best) ==
    IF i > Len(mem) THEN best
    ELSE IF ~mem[i].allocated /\ mem[i].size >= size
            /\ (best = 0 \/ mem[i].size < mem[best].size)
    THEN best_fit_from(mem, size, i + 1, i)
    ELSE best_fit_from(mem, size, i + 1, best)

first_fit_best(mem, size) == best_fit_from(mem, size, 1, 0)

\* the search choosing the largest free block (first such block on ties)
RECURSIVE worst_fit_from(_, _, _, _)
worst_fit_from(mem, size, k, worst) ==
    IF k > Len(mem) THEN worst
    ELSE IF ~mem[k].allocated /\ mem[k].size >= size
            /\ (worst = 0 \/ mem[k].size > mem[worst].size)
    THEN worst_fit_from(mem, size, k + 1, k)
    ELSE worst_fit_from(mem, size, k + 1, worst)

first_fit_worst(mem, size) == worst_fit_from(mem, size, 1, 0)

\* the search loop without the size test: the first free block
RECURSIVE first_free_from(_, _)
first_free_from(mem, k) ==
    IF k > Len(mem) THEN 0
    ELSE IF ~mem[k].allocated THEN k
    ELSE first_free_from(mem, k + 1)

first_fit_any_free(mem, size) == first_free_from(mem, 1)

\* the search loop without the allocated test: the first block large enough
RECURSIVE first_large_from(_, _, _)
first_large_from(mem, size, k) ==
    IF k > Len(mem) THEN 0
    ELSE IF mem[k].size >= size THEN k
    ELSE first_large_from(mem, size, k + 1)

first_fit_any_large(mem, size) == first_large_from(mem, size, 1)

first_fit(mem, size) == first_fit_from(mem, size, 1)

\* the remainder block placed at the start of the split block
new_free_block_at_start(block, size, remaining_size) ==
    MemoryBlock(block.start_address, remaining_size, FALSE, "")

\* the free block inserted after a split block
new_free_block(block, size, remaining_size) ==
    MemoryBlock(block.start_address + size, remaining_size, FALSE, "")

\* list.insert(idx, b) at the 1-based position pos
Insert(mem, pos, b) == SubSeq(mem, 1, pos - 1) \o <<b>> \o SubSeq(mem, pos, Len(mem))

\* list.pop(idx) at the 1-based position pos
Pop(mem, pos) == SubSeq(mem, 1, pos - 1) \o SubSeq(mem, pos + 1, Len(mem))

\* allocate_block charging used_memory with the size of the block found
allocate_block_charging_block(mem, used, block_idx, size, process_id) ==
    LET block == mem[block_idx]
    IN  IF block.size = size
        THEN [memory |-> [mem EXCEPT ![block_idx] =
                             [block EXCEPT !.allocated = TRUE, !.process_id = process_id]],
              used_memory |-> used + block.size]
        ELSE IF block.size > size
        THEN LET remaining_size == block.size - size
                 taken == [block EXCEPT !.size = size, !.allocated = TRUE,
                                        !.process_id = process_id]
             IN  [memory |-> Insert([mem EXCEPT ![block_idx] = taken], block_idx + 1,
                                    new_free_block(taken, size, remaining_size)),
                  used_memory |-> used + block.size]
        ELSE [memory |-> mem, used_memory |-> used]

\* allocate_block inserting the remainder at block_idx, before the block taken
allocate_block_insert_before(mem, used, block_idx, size, process_id) ==
    LET block == mem[block_idx]
    IN  IF block.size = size
        THEN [memory |-> [mem EXCEPT ![block_idx] =
                             [block EXCEPT !.allocated = TRUE, !.process_id = process_id]],
              used_memory |-> used + size]
        ELSE IF block.size > size
        THEN LET remaining_size == block.size - size
                 taken == [block EXCEPT !.size = size, !.allocated = TRUE,
                                        !.process_id = process_id]
             IN  [memory |-> Insert([mem EXCEPT ![block_idx] = taken], block_idx,
                                    new_free_block(taken, size, remaining_size)),
                  used_memory |-> used + size]
        ELSE [memory |-> mem, used_memory |-> used]

\* allocate_block leaving process_id unset in the exact-size branch
allocate_block_exact_no_owner(mem, used, block_idx, size, process_id) ==
    LET block == mem[block_idx]
    IN  IF block.size = size
        THEN [memory |-> [mem EXCEPT ![block_idx] = [block EXCEPT !.allocated = TRUE]],
              used_memory |-> used + size]
        ELSE IF block.size > size
        THEN LET remaining_size == block.size - size
                 taken == [block EXCEPT !.size = size, !.allocated = TRUE,
                                        !.process_id = process_id]
             IN  [memory |-> Insert([mem EXCEPT ![block_idx] = taken], block_idx + 1,
                                    new_free_block(taken, size, remaining_size)),
                  used_memory |-> used + size]
        ELSE [memory |-> mem, used_memory |-> used]

\* allocate_block without the exact-size branch: it splits whenever
\* block.size >= size
allocate_block_always_splitting(mem, used, block_idx, size, process_id) ==
    LET block == mem[block_idx]
    IN  IF block.size >= size
        THEN LET remaining_size == block.size - size
                 taken == [block EXCEPT !.size = size, !.allocated = TRUE,
                                        !.process_id = process_id]
             IN  [memory |-> Insert([mem EXCEPT ![block_idx] = taken], block_idx + 1,
                                    new_free_block(taken, size, remaining_size)),
                  used_memory |-> used + size]
        ELSE [memory |-> mem, used_memory |-> used]

\* allocate_block: the ledger and used_memory after allocating size to
\* process_id inside the block at block_idx
\* the split without block.size = size: the taken block keeps its size
allocate_block_keeping_size(mem, used, block_idx, size, process_id) ==
    LET block == mem[block_idx]
    IN  IF block.size = size
        THEN [memory |-> [mem EXCEPT ![block_idx] =
                             [block EXCEPT !.allocated = TRUE, !.process_id = process_id]],
              used_memory |-> used + size]
        ELSE IF block.size > size
        THEN LET remaining_size == block.size - size
                 taken == [block EXCEPT !.allocated = TRUE, !.process_id = process_id]
             IN  [memory |-> Insert([mem EXCEPT ![block_idx] = taken], block_idx + 1,
                                    new_free_block([taken EXCEPT !.size = size], size, remaining_size)),
                  used_memory |-> used + size]
        ELSE [memory |-> mem, used_memory |-> used]

allocate_block(mem, used, block_idx, size, process_id) ==
    LET block == mem[block_idx]
    IN  IF block.size = size
        THEN [memory |-> [mem EXCEPT ![block_idx] =
                             [block EXCEPT !.allocated = TRUE, !.process_id = process_id]],
              used_memory |-> used + size]
        ELSE IF block.size > size
        THEN LET remaining_size == block.size - size
                 taken == [block EXCEPT !.size = size, !.allocated = TRUE,
                                        !.process_id = process_id]
             IN  [memory |-> Insert([mem EXCEPT ![block_idx] = taken], block_idx + 1,
                                    new_free_block(taken, size, remaining_size)),
                  used_memory |-> used + size]
        ELSE [memory |-> mem, used_memory |-> used]

\* allocate_memory searching for a block before it looks for a duplicate
allocate_outcome_search_first(mem, used, size, process_id) ==
    IF size <= 0
    THEN [memory |-> mem, used_memory |-> used, result |-> <<FALSE, "invalid_size">>]
    ELSE LET i == first_fit(mem, size)
         IN  IF i = 0
             THEN [memory |-> mem, used_memory |-> used,
                   result |-> <<FALSE, "allocation_error">>]
             ELSE IF process_exists(mem, process_id)
             THEN [memory |-> mem, used_memory |-> used,
                   result |-> <<FALSE, "duplicate_process">>]
             ELSE LET a == allocate_block(mem, used, i, size, process_id)
                  IN  [memory |-> a.memory, used_memory |-> a.used_memory,
                       result |-> <<TRUE, "success">>]

\* allocate_memory rejecting only negative sizes
allocate_outcome_negative_only(mem, used, size, process_id) ==
    IF size < 0
    THEN [memory |-> mem, used_memory |-> used, result |-> <<FALSE, "invalid_size">>]
    ELSE IF process_exists(mem, process_id)
    THEN [memory |-> mem, used_memory |-> used, result |-> <<FALSE, "duplicate_process">>]
    ELSE LET i == first_fit(mem, size)
         IN  IF i # 0
             THEN LET a == allocate_block(mem, used, i, size, process_id)
                  IN  [memory |-> a.memory, used_memory |-> a.used_memory,
                       result |-> <<TRUE, "success">>]
             ELSE [memory |-> mem, used_memory |-> used,
                   result |-> <<FALSE, "allocation_error">>]

\* allocate_memory as a function of the engine state and its arguments
allocate_outcome(mem, used, size, process_id) ==
    IF size <= 0
    THEN [memory |-> mem, used_memory |-> used, result |-> <<FALSE, "invalid_size">>]
    ELSE IF process_exists(mem, process_id)
    THEN [memory |-> mem, used_memory |-> used, result |-> <<FALSE, "duplicate_process">>]
    ELSE LET i == first_fit(mem, size)
         IN  IF i # 0
             THEN LET a == allocate_block(mem, used, i, size, process_id)
                  IN  [memory |-> a.memory, used_memory |-> a.used_memory,
                       result |-> <<TRUE, "success">>]
             ELSE [memory |-> mem, used_memory |-> used,
                   result |-> <<FALSE, "allocation_error">>]

\* the merge dropping the second block without adding its size
merged_block_keeping_size(a, b) == a

\* the merge assigning the second block's size instead of adding it
merged_block_overwriting(a, b) == [a EXCEPT !.size = b.size]

\* the block left at i when the block at i + 1 is merged into it
merged_block(a, b) == [a EXCEPT !.size = a.size + b.size]

\* the while loop of merge_adjacent_free_blocks from index i
RECURSIVE merge_loop(_, _)
merge_loop(mem, i) ==
    IF ~(i < Len(mem)) THEN mem
    ELSE IF ~mem[i].allocated /\ ~mem[i + 1].allocated
    THEN merge_loop(Pop([mem EXCEPT ![i] = merged_block(mem[i], mem[i + 1])], i + 1), i)
    ELSE merge_loop(mem, i + 1)

\* the while loop advancing i after a merge as well
RECURSIVE merge_loop_advancing(_, _)
merge_loop_advancing(mem, i) ==
    IF ~(i < Len(mem)) THEN mem
    ELSE IF ~mem[i].allocated /\ ~mem[i + 1].allocated
    THEN merge_loop_advancing(Pop([mem EXCEPT ![i] = merged_block(mem[i], mem[i + 1])],
                                  i + 1), i + 1)
    ELSE merge_loop_advancing(mem, i + 1)

merge_adjacent_free_blocks_advancing(mem, indices_to_start_check) ==
    merge_loop_advancing(mem, 1)

\* the merge looking only at the indices it is given, highest first
RECURSIVE merge_at(_, _)
merge_at(mem, S) ==
    IF S = {} THEN mem
    ELSE LET i == CHOOSE j \in S : \A k \in S : k <= j
         IN  IF i < Len(mem) /\ ~mem[i].allocated /\ ~mem[i + 1].allocated
             THEN merge_at(Pop([mem EXCEPT ![i] = merged_block(mem[i], mem[i + 1])], i + 1),
                           S \ {i})
             ELSE merge_at(mem, S \ {i})

merge_adjacent_free_blocks_local(mem, indices_to_start_check) ==
    merge_at(mem, indices_to_start_check)

\* the merge never run
merge_adjacent_free_blocks_none(mem, indices_to_start_check) == mem

\* the while loop merging a pair as soon as one of its two blocks is free
RECURSIVE merge_loop_either(_, _)
merge_loop_either(mem, k) ==
    IF ~(k < Len(mem)) THEN mem
    ELSE IF ~mem[k].allocated \/ ~mem[k + 1].allocated
    THEN merge_loop_either(Pop([mem EXCEPT ![k] = merged_block(mem[k], mem[k + 1])], k + 1), k)
    ELSE merge_loop_either(mem, k + 1)

merge_adjacent_free_blocks_either(mem, indices_to_start_check) == merge_loop_either(mem, 1)

\* the while loop with the condition i < len(self.memory) - 2: the last pair
\* of the ledger is never looked at
RECURSIVE merge_loop_short(_, _)
merge_loop_short(mem, k) ==
    IF ~(k < Len(mem) - 1) THEN mem
    ELSE IF ~mem[k].allocated /\ ~mem[k + 1].allocated
    THEN merge_loop_short(Pop([mem EXCEPT ![k] = merged_block(mem[k], mem[k + 1])], k + 1), k)
    ELSE merge_loop_short(mem, k + 1)

merge_adjacent_free_blocks_short(mem, indices_to_start_check) == merge_loop_short(mem, 1)

\* merge_adjacent_free_blocks: the index set is accepted and not consulted
merge_adjacent_free_blocks(mem, indices_to_start_check) == merge_loop(mem, 1)

\* the blocks deallocate_memory frees
owned(mem, process_id) ==
    {i \in DOMAIN mem : mem[i].allocated /\ mem[i].process_id = process_id}

RECURSIVE SumOver(_, _)
SumOver(mem, S) ==
    IF S = {} THEN 0
    ELSE LET i == CHOOSE j \in S : TRUE IN mem[i].size + SumOver(mem, S \ {i})

\* deallocate_memory running the merge whether or not a block was found
deallocate_outcome_always_merging(mem, used, process_id) ==
    LET hit == owned(mem, process_id)
        freed == [i \in DOMAIN mem |->
                     IF i \in hit
                     THEN [mem[i] EXCEPT !.allocated = FALSE, !.process_id = ""]
                     ELSE mem[i]]
    IN  [memory |-> merge_adjacent_free_blocks(freed, {}),
         used_memory |-> used - SumOver(mem, hit), result |-> <<hit # {}>>]

\* deallocate_memory leaving process_id on the blocks it frees
deallocate_outcome_keeping_owner(mem, used, process_id) ==
    LET hit == owned(mem, process_id)
        freed == [i \in DOMAIN mem |->
                     IF i \in hit THEN [mem[i] EXCEPT !.allocated = FALSE] ELSE mem[i]]
    IN  IF hit # {}
        THEN [memory |-> merge_adjacent_free_blocks(freed, hit),
              used_memory |-> used - SumOver(mem, hit), result |-> <<TRUE>>]
        ELSE [memory |-> mem, used_memory |-> used, result |-> <<FALSE>>]

\* deallocate_memory not subtracting the freed size from used_memory
deallocate_outcome_keeping_used(mem, used, process_id) ==
    LET hit == owned(mem, process_id)
        freed == [i \in DOMAIN mem |->
                     IF i \in hit
                     THEN [mem[i] EXCEPT !.allocated = FALSE, !.process_id = ""]
                     ELSE mem[i]]
    IN  IF hit # {}
        THEN [memory |-> merge_adjacent_free_blocks(freed, hit),
              used_memory |-> used, result |-> <<TRUE>>]
        ELSE [memory |-> mem, used_memory |-> used, result |-> <<FALSE>>]

\* deallocate_memory adding the freed size to used_memory
deallocate_outcome_adding_used(mem, used, process_id) ==
    LET hit == owned(mem, process_id)
        freed == [k \in DOMAIN mem |->
                     IF k \in hit
                     THEN [mem[k] EXCEPT !.allocated = FALSE, !.process_id = ""]
                     ELSE mem[k]]
    IN  IF hit # {}
        THEN [memory |-> merge_adjacent_free_blocks(freed, hit),
              used_memory |-> used + SumOver(mem, hit), result |-> <<TRUE>>]
        ELSE [memory |-> mem, used_memory |-> used, result |-> <<FALSE>>]

\* deallocate_memory without block.allocated = False
deallocate_outcome_keeping_allocated(mem, used, process_id) ==
    LET hit == owned(mem, process_id)
        freed == [k \in DOMAIN mem |->
                     IF k \in hit THEN [mem[k] EXCEPT !.process_id = ""] ELSE mem[k]]
    IN  IF hit # {}
        THEN [memory |-> merge_adjacent_free_blocks(freed, hit),
              used_memory |-> used - SumOver(mem, hit), result |-> <<TRUE>>]
        ELSE [memory |-> mem, used_memory |-> used, result |-> <<FALSE>>]

\* deallocate_memory as a function of the engine state and its argument
deallocate_outcome(mem, used, process_id) ==
    LET hit == owned(mem, process_id)
        found == hit # {}
        deallocated_size == SumOver(mem, hit)
        freed == [i \in DOMAIN mem |->
                     IF i \in hit
                     THEN [mem[i] EXCEPT !.allocated = FALSE, !.process_id = ""]
                     ELSE mem[i]]
        indices_to_check_merge == hit \cup {i - 1 : i \in {j \in hit : j > 1}}
    IN  IF found
        THEN [memory |-> merge_adjacent_free_blocks(freed, indices_to_check_merge),
              used_memory |-> used - deallocated_size, result |-> <<TRUE>>]
        ELSE [memory |-> mem, used_memory |-> used, result |-> <<FALSE>>]

\* the scan of calculate_fragmentation for the largest free block, from
\* block i on with the running maximum largest_free_block
RECURSIVE largest_free_from(_, _, _)
largest_free_from(mem, i, largest_free_block) ==
    IF i > Len(mem) THEN largest_free_block
    ELSE IF ~mem[i].allocated /\ mem[i].size > largest_free_block
    THEN largest_free_from(mem, i + 1, mem[i].size)
    ELSE largest_free_from(mem, i + 1, largest_free_block)

\* calculate_fragmentation measuring the unusable space against the whole memory
calculate_fragmentation_of_total(mem, total, used) ==
    LET total_free_memory == total - used
        largest_free_block == largest_free_from(mem, 1, 0)
        unusable_free_space == total - largest_free_block
    IN  IF total_free_memory = 0
        THEN [num |-> 0, den |-> 1]
        ELSE [num |-> IF unusable_free_space < 0 THEN 0 ELSE unusable_free_space,
              den |-> total_free_memory]

\* the scan taking the largest allocated block instead of the largest free one
RECURSIVE largest_allocated_from(_, _, _)
largest_allocated_from(mem, i, largest) ==
    IF i > Len(mem) THEN largest
    ELSE IF mem[i].allocated /\ mem[i].size > largest
    THEN largest_allocated_from(mem, i + 1, mem[i].size)
    ELSE largest_allocated_from(mem, i + 1, largest)

calculate_fragmentation_largest_allocated(mem, total, used) ==
    LET total_free_memory == total - used
        largest_free_block == largest_allocated_from(mem, 1, 0)
        unusable_free_space == total_free_memory - largest_free_block
    IN  IF total_free_memory = 0
        THEN [num |-> 0, den |-> 1]
        ELSE [num |-> IF unusable_free_space < 0 THEN 0 ELSE unusable_free_space,
              den |-> total_free_memory]

\* calculate_fragmentation: the float it returns is (num / den) * 100, kept
\* here as the exact fraction num / den
calculate_fragmentation(mem, total, used) ==
    LET total_free_memory == total - used
        largest_free_block == largest_free_from(mem, 1, 0)
        unusable_free_space == total_free_memory - largest_free_block
    IN  IF total_free_memory = 0
        THEN [num |-> 0, den |-> 1]
        ELSE [num |-> IF unusable_free_space < 0 THEN 0 ELSE unusable_free_space,
              den |-> total_free_memory]

\* get_memory_stats reporting used - total as the free size
stats_outcome_free_negated(mem, total, used) ==
    <<total, used, used - total, calculate_fragmentation(mem, total, used)>>

\* get_memory_stats: (total, used, free, fragmentation)
stats_outcome(mem, total, used) ==
    <<total, used, total - used, calculate_fragmentation(mem, total, used)>>

(* ---------------------------------------------------------------------- *)
(* The engine as a state machine                                           *)
(* ---------------------------------------------------------------------- *)

Init ==
    /\ memory = initialize_memory.memory
    /\ total_memory_size = initialize_memory.total_memory_size
    /\ used_memory = initialize_memory.used_memory
    /\ op = "__init__"
    /\ arg_size = 0
    /\ arg_id = ""
    /\ result = <<>>
    /\ calls = 0
    /\ prev_memory = <<>>
    /\ prev_used = 0
    /\ pc = "idle"
    /\ merge_i = 0
    /\ iterations = 0

\* a call is made when no other call is running, and runs to completion
Idle == pc = "idle" /\ UNCHANGED <<pc, merge_i, iterations>>

\* one call allocate_memory(size, process_id)
\* Best-Fit select of the policy-parameterised version of the engine: the
\* free block of minimal slack among those with size >= requestedSize, the
\* first one met winning ties (strict <); 0 when there is none
RECURSIVE select_best_fit_from(_, _, _, _)
select_best_fit_from(blocks, requestedSize, k, best) ==
    IF k > Len(blocks) THEN best
    ELSE IF ~blocks[k].allocated /\ blocks[k].size >= requestedSize
            /\ (best = 0
                 \/ blocks[k].size - requestedSize < blocks[best].size - requestedSize)
    THEN select_best_fit_from(blocks, requestedSize, k + 1, k)
    ELSE select_best_fit_from(blocks, requestedSize, k + 1, best)

select_best_fit(blocks, requestedSize) == select_best_fit_from(blocks, requestedSize, 1, 0)

\* allocate of the policy-parameterised version with Best-Fit active: the
\* same rejections, then the policy's select, then the split of allocate_block
allocate_outcome_best_fit(mem, used, size, process_id) ==
    IF size <= 0
    THEN [memory |-> mem, used_memory |-> used, result |-> <<FALSE, "invalid_size">>]
    ELSE IF process_exists(mem, process_id)
    THEN [memory |-> mem, used_memory |-> used, result |-> <<FALSE, "duplicate_process">>]
    ELSE LET t == select_best_fit(mem, size)
         IN  IF t # 0
             THEN LET a == allocate_block(mem, used, t, size, process_id)
                  IN  [memory |-> a.memory, used_memory |-> a.used_memory,
                       result |-> <<TRUE, "success">>]
             ELSE [memory |-> mem, used_memory |-> used,
                   result |-> <<FALSE, "allocation_error">>]

allocate_best_fit_call(size, process_id) ==
    /\ Idle
    /\ calls < MaxCalls
    /\ calls' = calls + 1
    /\ prev_memory' = memory
    /\ prev_used' = used_memory
    /\ LET o == allocate_outcome_best_fit(memory, used_memory, size, process_id)
       IN  /\ memory' = o.memory
           /\ used_memory' = o.used_memory
           /\ result' = o.result
           /\ op' = "allocate_best_fit"
           /\ arg_size' = size
           /\ arg_id' = process_id
    /\ UNCHANGED total_memory_size

allocate_memory_call(size, process_id) ==
    /\ Idle
    /\ calls < MaxCalls
    /\ calls' = calls + 1
    /\ prev_memory' = memory
    /\ prev_used' = used_memory
    /\ LET o == allocate_outcome(memory, used_memory, size, process_id)
       IN  /\ memory' = o.memory
           /\ used_memory' = o.used_memory
           /\ result' = o.result
           /\ op' = "allocate_memory"
           /\ arg_size' = size
           /\ arg_id' = process_id
    /\ UNCHANGED total_memory_size

allocate_memory ==
    \E size \in Sizes, process_id \in ProcessIds : allocate_memory_call(size, process_id)

\* one call deallocate_memory(process_id)
deallocate_memory_call(process_id) ==
    /\ Idle
    /\ calls < MaxCalls
    /\ calls' = calls + 1
    /\ prev_memory' = memory
    /\ prev_used' = used_memory
    /\ LET o == deallocate_outcome(memory, used_memory, process_id)
       IN  /\ memory' = o.memory
           /\ used_memory' = o.used_memory
           /\ result' = o.result
           /\ op' = "deallocate_memory"
           /\ arg_id' = process_id
    /\ arg_size' = 0
    /\ UNCHANGED total_memory_size

deallocate_memory ==
    \E process_id \in ProcessIds : deallocate_memory_call(process_id)

\* reset_memory with used_memory not zeroed before the seed is added up
reset_memory_keeping_used ==
    /\ Idle
    /\ calls < MaxCalls
    /\ calls' = calls + 1
    /\ prev_memory' = memory
    /\ prev_used' = used_memory
    /\ memory' = initialize_memory.memory
    /\ total_memory_size' = initialize_memory.total_memory_size
    /\ used_memory' = used_memory + initialize_memory.used_memory
    /\ op' = "reset_memory"
    /\ arg_size' = 0
    /\ arg_id' = ""
    /\ result' = <<>>

reset_memory ==
    /\ Idle
    /\ calls < MaxCalls
    /\ calls' = calls + 1
    /\ prev_memory' = memory
    /\ prev_used' = used_memory
    /\ memory' = initialize_memory.memory
    /\ total_memory_size' = initialize_memory.total_memory_size
    /\ used_memory' = initialize_memory.used_memory
    /\ op' = "reset_memory"
    /\ arg_size' = 0
    /\ arg_id' = ""
    /\ result' = <<>>

get_memory_stats ==
    /\ Idle
    /\ calls < MaxCalls
    /\ calls' = calls + 1
    /\ prev_memory' = memory
    /\ prev_used' = used_memory
    /\ result' = stats_outcome(memory, total_memory_size, used_memory)
    /\ op' = "get_memory_stats"
    /\ arg_size' = 0
    /\ arg_id' = ""
    /\ UNCHANGED <<memory, total_memory_size, used_memory>>

Next == allocate_memory \/ deallocate_memory \/ reset_memory \/ get_memory_stats

Spec == Init /\ [][Next]_vars

(* ---------------------------------------------------------------------- *)
(* Release and reuse: every owner of the ledger can be deallocated, and a   *)
(* freed identifier allocated again with the size it held                   *)
(* ---------------------------------------------------------------------- *)

ReleaseSizes == {10, 150}
ReleaseAllocIds == {"Process-B", "Process-E"}
ReleaseFreeIds == {"Process-A", "Process-B", "Process-C", "Process-D", "Process-E"}

release_allocate ==
    \E size \in ReleaseSizes, process_id \in ReleaseAllocIds :
        allocate_memory_call(size, process_id)

release_deallocate ==
    \E process_id \in ReleaseFreeIds : deallocate_memory_call(process_id)

NextRelease == release_allocate \/ release_deallocate \/ reset_memory \/ get_memory_stats

SpecRelease == Init /\ [][NextRelease]_vars

(* ---------------------------------------------------------------------- *)
(* The seed scenarios: the same engine driven with the scenarios' requests *)
(* ---------------------------------------------------------------------- *)

scenario_allocate ==
    \E size \in ScenarioSizes, process_id \in ScenarioAllocIds :
        allocate_memory_call(size, process_id)

scenario_deallocate ==
    \E process_id \in ScenarioFreeIds : deallocate_memory_call(process_id)

NextScenario == scenario_allocate \/ scenario_deallocate \/ reset_memory \/ get_memory_stats

SpecScenario == Init /\ [][NextScenario]_vars

(* ---------------------------------------------------------------------- *)
(* deallocate_memory with the while loop of merge_adjacent_free_blocks     *)
(* run one iteration at a time                                             *)
(* ---------------------------------------------------------------------- *)

\* the ledger after the for loop of deallocate_memory
\* the seed scenarios with Best-Fit as the active policy
scenario_allocate_best_fit ==
    \E size \in ScenarioSizes, process_id \in ScenarioAllocIds :
        allocate_best_fit_call(size, process_id)

NextBestFit ==
    \/ scenario_allocate_best_fit
    \/ scenario_deallocate
    \/ reset_memory
    \/ get_memory_stats

SpecBestFit == Init /\ [][NextBestFit]_vars

freed_ledger(mem, process_id) ==
    [k \in DOMAIN mem |->
        IF mem[k].allocated /\ mem[k].process_id = process_id
        THEN [mem[k] EXCEPT !.allocated = FALSE, !.process_id = ""]
        ELSE mem[k]]

\* deallocate_memory up to the call of merge_adjacent_free_blocks, or to
\* its return False when no block was found
deallocate_memory_begin ==
    /\ pc = "idle"
    /\ calls < MaxCalls
    /\ calls' = calls + 1
    /\ prev_memory' = memory
    /\ prev_used' = used_memory
    /\ \E process_id \in ProcessIds :
          LET hit == owned(memory, process_id)
          IN  /\ op' = "deallocate_memory"
              /\ arg_id' = process_id
              /\ IF hit # {}
                 THEN /\ memory' = freed_ledger(memory, process_id)
                      /\ used_memory' = used_memory - SumOver(memory, hit)
                      /\ result' = <<>>
                      /\ pc' = "merge"
                      /\ merge_i' = 1
                      /\ iterations' = 0
                 ELSE /\ result' = <<FALSE>>
                      /\ UNCHANGED <<memory, used_memory, pc, merge_i, iterations>>
    /\ arg_size' = 0
    /\ UNCHANGED total_memory_size

\* one iteration of the while loop without the i += 1 of a pair that is not merged
merge_iteration_not_advancing ==
    /\ pc = "merge"
    /\ IF merge_i < Len(memory)
       THEN /\ IF ~memory[merge_i].allocated /\ ~memory[merge_i + 1].allocated
               THEN memory' = Pop([memory EXCEPT ![merge_i] = merged_block(memory[merge_i], memory[merge_i + 1])],
                                  merge_i + 1)
               ELSE memory' = memory
            /\ merge_i' = merge_i
            /\ iterations' = iterations + 1
            /\ UNCHANGED <<pc, result>>
       ELSE /\ pc' = "idle"
            /\ result' = <<TRUE>>
            /\ merge_i' = 0
            /\ iterations' = 0
            /\ UNCHANGED memory
    /\ UNCHANGED <<total_memory_size, used_memory, op, arg_size, arg_id, calls,
                   prev_memory, prev_used>>

\* one test of the while condition: an iteration of the loop (a merge that
\* keeps i, or i += 1), or the exit from the loop and the return True of
\* deallocate_memory
merge_iteration ==
    /\ pc = "merge"
    /\ IF merge_i < Len(memory)
       THEN /\ IF ~memory[merge_i].allocated /\ ~memory[merge_i + 1].allocated
               THEN /\ memory' = Pop([memory EXCEPT ![merge_i] =
                                         merged_block(memory[merge_i], memory[merge_i + 1])], merge_i + 1)
                    /\ merge_i' = merge_i
               ELSE /\ memory' = memory
                    /\ merge_i' = merge_i + 1
            /\ iterations' = iterations + 1
            /\ UNCHANGED <<pc, result>>
       ELSE /\ pc' = "idle"
            /\ result' = <<TRUE>>
            /\ merge_i' = 0
            /\ iterations' = 0
            /\ UNCHANGED memory
    /\ UNCHANGED <<total_memory_size, used_memory, op, arg_size, arg_id, calls,
                   prev_memory, prev_used>>

NextSteps ==
    \/ allocate_memory
    \/ deallocate_memory_begin
    \/ merge_iteration
    \/ reset_memory
    \/ get_memory_stats

SpecSteps == Init /\ [][NextSteps]_vars

(* ---------------------------------------------------------------------- *)
(* Vocabulary of the properties                                            *)
(* ---------------------------------------------------------------------- *)

\* some allocated block of mem carries id
Owns(mem, id) == \E i \in DOMAIN mem : mem[i].allocated /\ mem[i].process_id = id

\* some free block of mem has room for size
HasFit(mem, size) == \E i \in DOMAIN mem : ~mem[i].allocated /\ mem[i].size >= size

\* the allocated blocks of mem
AllocatedBlocks(mem) == {mem[i] : i \in {j \in DOMAIN mem : mem[j].allocated}}

\* the positions whose block and right neighbour are both free
AdjacentFree(mem) ==
    {i \in 1..(Len(mem) - 1) : ~mem[i].allocated /\ ~mem[i + 1].allocated}

Unchanged == memory' = memory /\ used_memory' = used_memory

(* ---------------------------------------------------------------------- *)
(* Properties                                                              *)
(* ---------------------------------------------------------------------- *)

\* C1: in every reachable state the block sizes of the ledger sum to
\* total_memory_size, and total_memory_size is 1135.
C1_Conservation ==
    /\ SumSizes(memory) = total_memory_size
    /\ total_memory_size = 1135

\* a successful deallocation (with its merge) of a ledger that Process-E had split
C1_Witness ==
    /\ op = "deallocate_memory" /\ result = <<TRUE>>
    /\ Owns(memory, "Process-E")
    /\ Len(memory) # Len(initial_layout)

\* C2: the ledger tiles the address space: the first block starts at 0, each
\* block ends where the next starts (so start addresses strictly increase),
\* and the last block ends at total_memory_size.
C2_Tiling ==
    /\ Len(memory) >= 1
    /\ memory[1].start_address = 0
    /\ \A i \in 1..(Len(memory) - 1) :
          /\ memory[i].start_address + memory[i].size = memory[i + 1].start_address
          /\ memory[i].start_address < memory[i + 1].start_address
    /\ memory[Len(memory)].start_address + memory[Len(memory)].size = total_memory_size

\* a split has left Process-E's block followed by its free remainder
C2_Witness ==
    \E i \in 1..(Len(memory) - 1) :
        /\ memory[i].allocated /\ memory[i].process_id = "Process-E"
        /\ ~memory[i + 1].allocated
        /\ op = "allocate_memory" /\ result = <<TRUE, "success">>

\* C3: no two allocated blocks carry the same process_id.
C3_OwnerUnique ==
    \A i, j \in DOMAIN memory :
        (i # j /\ memory[i].allocated /\ memory[j].allocated)
            => memory[i].process_id # memory[j].process_id

\* an identifier that owns a block has just asked for another one
C3_Witness ==
    /\ op = "allocate_memory" /\ arg_size > 0
    /\ result = <<FALSE, "duplicate_process">>
    /\ Owns(memory, arg_id)
    /\ HasFit(memory, arg_size)

\* C4: right after a deallocate_memory that returned True, no two consecutive
\* blocks anywhere in the ledger are both free.
C4_NoAdjacentFreeAfterDeallocate ==
    (op = "deallocate_memory" /\ result = <<TRUE>>) => AdjacentFree(memory) = {}

\* Process-A was freed and the seed's free pair at 452, far from it, is merged
C4_Witness ==
    /\ op = "deallocate_memory" /\ result = <<TRUE>> /\ arg_id = "Process-A"
    /\ \E i \in DOMAIN memory :
          ~memory[i].allocated /\ memory[i].start_address = 452 /\ memory[i].size = 5

\* C5 as stated: in every reachable state, the constructor's included, no two
\* consecutive blocks are both free.
C5_NoAdjacentFreeEver == AdjacentFree(memory) = {}

\* C5: the only consecutive free blocks a reachable ledger can have are the
\* seed's 1 KB block at 452 and 4 KB block at 453, left by the constructor or
\* reset_memory; no operation creates another such pair.
C5_OnlySeedPair ==
    \A i \in AdjacentFree(memory) :
        /\ memory[i].start_address = 452
        /\ memory[i].size = 1
        /\ memory[i + 1].size = 4

\* the seed pair is still there after a split elsewhere in the ledger
C5_Witness ==
    /\ op = "allocate_memory" /\ result = <<TRUE, "success">>
    /\ AdjacentFree(memory) # {}

\* C6: allocate_memory(size, id) with size > 0 and id owning an allocated
\* block returns (False, 'duplicate_process') and changes neither the ledger
\* nor used_memory, whether or not a free block is large enough.
C6_DuplicateRejected ==
    [][(op' = "allocate_memory" /\ arg_size' > 0 /\ Owns(memory, arg_id'))
          => (result' = <<FALSE, "duplicate_process">> /\ Unchanged)]_vars

\* a duplicate was refused although no free block could have held the request
C6_Witness ==
    /\ op = "allocate_memory" /\ arg_size > 0
    /\ result = <<FALSE, "duplicate_process">>
    /\ ~HasFit(memory, arg_size)

\* C7: allocate_memory(size, id) with size <= 0 returns (False, 'invalid_size')
\* and changes neither the ledger nor used_memory, also when id is allocated.
C7_InvalidSizeRejected ==
    [][(op' = "allocate_memory" /\ arg_size' <= 0)
          => (result' = <<FALSE, "invalid_size">> /\ Unchanged)]_vars

\* a non-positive size was refused for an identifier that owns a block
C7_Witness ==
    /\ op = "allocate_memory" /\ arg_size <= 0
    /\ result = <<FALSE, "invalid_size">>
    /\ Owns(memory, arg_id)

\* C8: allocate_memory(size, id) with size > 0 and id not allocated returns
\* (False, 'allocation_error') exactly when no free block has size >= size,
\* and then changes neither the ledger nor used_memory.
C8_NoSuitableBlock ==
    [][(op' = "allocate_memory" /\ arg_size' > 0 /\ ~Owns(memory, arg_id'))
          => /\ (result' = <<FALSE, "allocation_error">>) <=> ~HasFit(memory, arg_size')
             /\ (result' = <<FALSE, "allocation_error">>) => Unchanged]_vars

\* a request failed for want of one block although the free total covers it
C8_Witness ==
    /\ op = "allocate_memory" /\ result = <<FALSE, "allocation_error">>
    /\ total_memory_size - used_memory >= arg_size

\* C9: deallocate_memory(id) with id owning no allocated block returns False
\* and leaves the ledger and used_memory as they were; no merge is run.
C9_OwnerNotFound ==
    [][(op' = "deallocate_memory" /\ ~Owns(memory, arg_id'))
          => (result' = <<FALSE>> /\ Unchanged)]_vars

\* a failed deallocation has left a pair of consecutive free blocks unmerged
C9_Witness ==
    /\ op = "deallocate_memory" /\ result = <<FALSE>>
    /\ AdjacentFree(memory) # {}

\* C10: allocate_memory(size, id) returns (True, 'success') exactly when
\* size > 0, id owns no allocated block and some free block has size >= size;
\* then exactly one block becomes allocated, to id and of the requested size,
\* and used_memory grows by size.
C10_SuccessIff ==
    [][(op' = "allocate_memory")
          => /\ (result' = <<TRUE, "success">>)
                  <=> (arg_size' > 0 /\ ~Owns(memory, arg_id') /\ HasFit(memory, arg_size'))
             /\ (result' = <<TRUE, "success">>)
                  => /\ \E b \in AllocatedBlocks(memory') \ AllocatedBlocks(memory) :
                           /\ AllocatedBlocks(memory') = AllocatedBlocks(memory) \cup {b}
                           /\ b.process_id = arg_id'
                           /\ b.size = arg_size'
                     /\ Cardinality({i \in DOMAIN memory' : memory'[i].allocated})
                           = Cardinality({i \in DOMAIN memory : memory[i].allocated}) + 1
                     /\ used_memory' = used_memory + arg_size']_vars

\* a successful allocation that split a larger free block
C10_Witness ==
    /\ op = "allocate_memory" /\ result = <<TRUE, "success">>
    /\ \E i \in 1..(Len(memory) - 1) :
          /\ memory[i].allocated /\ memory[i].process_id = arg_id
          /\ memory[i].size = arg_size
          /\ ~memory[i + 1].allocated

\* the last step was an allocate_memory that returned (True, 'success')
AllocSucceeded == op' = "allocate_memory" /\ result' = <<TRUE, "success">>

\* t is the block the step took: free before, changed by the step, with
\* every block before it left as it was
Taken(t) ==
    /\ t \in DOMAIN memory /\ t \in DOMAIN memory'
    /\ ~memory[t].allocated
    /\ memory'[t] # memory[t]
    /\ \A j \in 1..(t - 1) : memory'[j] = memory[j]

\* C11: when a successful allocate_memory(size, id) takes a free block of
\* size S > size at address A, the ledger then has at the same index the
\* allocated block [A, A+size) of id, right after it a new free block
\* [A+size, A+S) with empty process_id, one block more, and the blocks that
\* followed shifted by one.
C11_SplitCorrect ==
    [][AllocSucceeded
          => \A t \in DOMAIN memory :
                (Taken(t) /\ memory[t].size > arg_size')
                   => /\ Len(memory') = Len(memory) + 1
                      /\ memory'[t] = [start_address |-> memory[t].start_address,
                                       size |-> arg_size', allocated |-> TRUE,
                                       process_id |-> arg_id']
                      /\ memory'[t + 1] =
                            [start_address |-> memory[t].start_address + arg_size',
                             size |-> memory[t].size - arg_size', allocated |-> FALSE,
                             process_id |-> ""]
                      /\ \A j \in (t + 1)..Len(memory) : memory'[j + 1] = memory[j]]_vars

\* an allocation has split a block in the middle of the ledger
C11_Witness ==
    /\ op = "allocate_memory" /\ result = <<TRUE, "success">>
    /\ Len(memory) = Len(prev_memory) + 1
    /\ \E t \in 2..(Len(prev_memory) - 1) :
          /\ ~prev_memory[t].allocated /\ prev_memory[t].size > arg_size
          /\ memory[t].allocated /\ memory[t].process_id = arg_id

\* C12: when a successful allocate_memory(size, id) takes a free block whose
\* size equals size, that block is marked allocated with process_id = id in
\* place; no block is inserted and no start address or size changes.
C12_ExactFit ==
    [][AllocSucceeded
          => \A t \in DOMAIN memory :
                (Taken(t) /\ memory[t].size = arg_size')
                   => /\ Len(memory') = Len(memory)
                      /\ memory' = [memory EXCEPT ![t] =
                                       [start_address |-> memory[t].start_address,
                                        size |-> memory[t].size, allocated |-> TRUE,
                                        process_id |-> arg_id']]]_vars

\* an allocation has taken a free block of exactly the requested size
C12_Witness ==
    /\ op = "allocate_memory" /\ result = <<TRUE, "success">>
    /\ Len(memory) = Len(prev_memory)
    /\ \E t \in DOMAIN memory :
          /\ ~prev_memory[t].allocated /\ prev_memory[t].size = arg_size
          /\ memory[t].allocated /\ memory[t].process_id = arg_id

\* C13: on every successful allocate_memory(size, id) the block that becomes
\* allocated to id is the free block with size >= size of lowest index in
\* the ledger before the call.
C13_FirstFit ==
    [][AllocSucceeded
          => \E t \in DOMAIN memory :
                /\ Taken(t)
                /\ memory[t].size >= arg_size'
                /\ \A j \in 1..(t - 1) : memory[j].allocated \/ memory[j].size < arg_size'
                /\ memory'[t].allocated
                /\ memory'[t].process_id = arg_id'
                /\ memory'[t].start_address = memory[t].start_address]_vars

\* the block taken came after a free block that was too small and before
\* another free block that would have fitted with less slack
C13_Witness ==
    /\ op = "allocate_memory" /\ result = <<TRUE, "success">>
    /\ \E t \in DOMAIN prev_memory :
          /\ ~prev_memory[t].allocated
          /\ memory[t].allocated /\ memory[t].process_id = arg_id
          /\ \E j \in 1..(t - 1) : ~prev_memory[j].allocated /\ prev_memory[j].size < arg_size
          /\ \E k \in (t + 1)..Len(prev_memory) :
                /\ ~prev_memory[k].allocated
                /\ prev_memory[k].size >= arg_size
                /\ prev_memory[k].size < prev_memory[t].size

\* the ledger with every run of consecutive free blocks made one block,
\* built from the right end
RECURSIVE Coalesced(_)
Coalesced(mem) ==
    IF Len(mem) <= 1 THEN mem
    ELSE LET h == Head(mem)
             rest == Coalesced(Tail(mem))
         IN  IF ~h.allocated /\ ~Head(rest).allocated
             THEN <<[h EXCEPT !.size = h.size + Head(rest).size]>> \o Tail(rest)
             ELSE <<h>> \o rest

\* a successful allocate_memory(size, id) is followed at once by deallocate_memory(id)
RoundTripStep ==
    /\ op = "allocate_memory" /\ result = <<TRUE, "success">>
    /\ op' = "deallocate_memory" /\ arg_id' = arg_id

\* C14 as stated: a successful allocate_memory(size, id) followed at once by
\* deallocate_memory(id) gives back the ledger as it was before the
\* allocation, block for block, and the used_memory of before.
C14_RoundTripIdentity ==
    [][RoundTripStep => (memory' = prev_memory /\ used_memory' = prev_used)]_vars

\* C14: a successful allocate_memory(size, id) followed at once by
\* deallocate_memory(id) gives the ledger of before the allocation with its
\* consecutive free blocks coalesced, and the used_memory of before; it is
\* that ledger block for block when it had no two consecutive free blocks.
C14_RoundTripCoalesced ==
    [][RoundTripStep
          => /\ result' = <<TRUE>>
             /\ used_memory' = prev_used
             /\ memory' = Coalesced(prev_memory)
             /\ (AdjacentFree(prev_memory) = {} => memory' = prev_memory)]_vars

\* Process-E was allocated in the seed ledger and freed at once
C14_Witness ==
    /\ calls = 2
    /\ op = "deallocate_memory" /\ result = <<TRUE>> /\ arg_id = "Process-E"
    /\ used_memory = initialize_memory.used_memory

\* the nine blocks of the seed state
SeedLedger ==
    << [start_address |-> 0,    size |-> 2,   allocated |-> FALSE, process_id |-> ""],
       [start_address |-> 2,    size |-> 120, allocated |-> TRUE,  process_id |-> "Process-A"],
       [start_address |-> 122,  size |-> 20,  allocated |-> FALSE, process_id |-> ""],
       [start_address |-> 142,  size |-> 150, allocated |-> TRUE,  process_id |-> "Process-B"],
       [start_address |-> 292,  size |-> 160, allocated |-> TRUE,  process_id |-> "Process-C"],
       [start_address |-> 452,  size |-> 1,   allocated |-> FALSE, process_id |-> ""],
       [start_address |-> 453,  size |-> 4,   allocated |-> FALSE, process_id |-> ""],
       [start_address |-> 457,  size |-> 554, allocated |-> TRUE,  process_id |-> "Process-D"],
       [start_address |-> 1011, size |-> 124, allocated |-> FALSE, process_id |-> ""] >>

\* C15: reset_memory, called in any state, leaves exactly the seed state:
\* the nine seed blocks at their cumulative addresses, total_memory_size
\* 1135 and used_memory 984.
C15_ResetRestoresSeed ==
    (op = "reset_memory")
        => /\ memory = SeedLedger
           /\ total_memory_size = 1135
           /\ used_memory = 984

\* reset_memory was called on a ledger and a used_memory other than the seed's
C15_Witness ==
    /\ op = "reset_memory"
    /\ prev_memory # SeedLedger
    /\ prev_used # 984
    /\ Len(prev_memory) # 9

\* the positions of the free blocks of mem
FreeBlocks(mem) == {i \in DOMAIN mem : ~mem[i].allocated}

\* the size of the largest free block of mem, 0 when it has none
MaxFree(mem) ==
    LET sizes == {mem[i].size : i \in FreeBlocks(mem)} \cup {0}
    IN  CHOOSE m \in sizes : \A n \in sizes : n <= m

\* C16: in every reachable state the percentage calculate_fragmentation
\* returns, (num / den) * 100, lies in [0, 100]; over the integers,
\* 0 <= (total_memory_size - used_memory) - largest free block
\*   <= total_memory_size - used_memory.
C16_FragmentationBounds ==
    LET f == calculate_fragmentation(memory, total_memory_size, used_memory)
        free == total_memory_size - used_memory
    IN  /\ f.den > 0
        /\ 0 <= f.num * 100
        /\ f.num * 100 <= 100 * f.den
        /\ 0 <= free - MaxFree(memory)
        /\ free - MaxFree(memory) <= free

\* get_memory_stats has reported a fragmentation strictly between 0 and 100
\* on a ledger changed by a deallocation
C16_Witness ==
    /\ op = "get_memory_stats"
    /\ memory # SeedLedger
    /\ result[4].num > 0
    /\ result[4].num < result[4].den

\* C17: in every reachable state whose ledger has at most one free block,
\* calculate_fragmentation returns 0: the free total is 0 or the one free
\* block holds all of total_memory_size - used_memory.
C17_SingleFreeBlockNoFragmentation ==
    (Cardinality(FreeBlocks(memory)) <= 1)
        => /\ calculate_fragmentation(memory, total_memory_size, used_memory).num = 0
           /\ \/ total_memory_size - used_memory = 0
              \/ \E i \in FreeBlocks(memory) :
                    memory[i].size = total_memory_size - used_memory

\* a ledger with one free block only
C17_Witness ==
    /\ Cardinality(FreeBlocks(memory)) = 1
    /\ total_memory_size - used_memory > 0

\* every free block has the empty process_id
FreeHaveNoOwner(mem) == \A i \in DOMAIN mem : ~mem[i].allocated => mem[i].process_id = ""

\* the allocated blocks whose process_id is the empty string
AllocatedToEmpty(mem) == {i \in DOMAIN mem : mem[i].allocated /\ mem[i].process_id = ""}

\* C18 as stated: whatever strings the calls were given, a block's
\* process_id is empty if and only if the block is free.
C18_OwnerIffAllocated ==
    \A i \in DOMAIN memory : (memory[i].process_id = "") <=> ~memory[i].allocated

\* C18: a free block never has an owner, and an allocated block with the
\* empty process_id comes only from allocate_memory called with the empty
\* string: no other call adds one, the seed has none, so with non-empty
\* identifiers process_id is empty if and only if the block is free.
C18_OwnerIffAllocatedForNonEmptyIds ==
    [][/\ FreeHaveNoOwner(memory)
       /\ FreeHaveNoOwner(memory')
       /\ AllocatedToEmpty(SeedLedger) = {}
       /\ ~(op' = "allocate_memory" /\ arg_id' = "")
             => Cardinality(AllocatedToEmpty(memory')) <= Cardinality(AllocatedToEmpty(memory))
       /\ (C18_OwnerIffAllocated /\ ~(op' = "allocate_memory" /\ arg_id' = ""))
             => C18_OwnerIffAllocated']_vars

\* blocks were allocated and freed under non-empty identifiers only
C18_Witness ==
    /\ op = "deallocate_memory" /\ result = <<TRUE>> /\ arg_id = "Process-E"
    /\ calls = 2
    /\ C18_OwnerIffAllocated

\* C19: every block of the ledger has size > 0 in every reachable state.
C19_PositiveSizes == \A i \in DOMAIN memory : memory[i].size > 0

\* an allocation of exactly the block's size, where a split would have left
\* a remainder of size 0
C19_Witness ==
    /\ op = "allocate_memory" /\ result = <<TRUE, "success">>
    /\ Len(memory) = Len(prev_memory)
    /\ \E t \in DOMAIN memory :
          /\ memory[t].allocated /\ memory[t].process_id = arg_id
          /\ memory[t].size = prev_memory[t].size
          /\ t < Len(memory) => memory[t + 1].allocated

\* the blocks of mem allocated to id, in ledger order
OwnedBy(mem, id) ==
    LET Test(b) == b.allocated /\ b.process_id = id IN SelectSeq(mem, Test)

\* C20: deallocate_memory(id) on a state where id owns a block returns True,
\* leaves every block id owned free with empty process_id (inside a free
\* block of the new ledger), takes the sum of their sizes off used_memory,
\* and leaves no allocated block with process_id = id nor touches the other
\* allocated blocks.
C20_DeallocateFrees ==
    [][(op' = "deallocate_memory" /\ Owns(memory, arg_id'))
          => /\ result' = <<TRUE>>
             /\ ~Owns(memory', arg_id')
             /\ used_memory' = used_memory - SumSizes(OwnedBy(memory, arg_id'))
             /\ AllocatedBlocks(memory')
                   = AllocatedBlocks(memory) \ {b \in AllocatedBlocks(memory) : b.process_id = arg_id'}
             /\ \A i \in DOMAIN memory :
                   (memory[i].allocated /\ memory[i].process_id = arg_id')
                      => \E j \in DOMAIN memory' :
                            /\ ~memory'[j].allocated
                            /\ memory'[j].process_id = ""
                            /\ memory'[j].start_address <= memory[i].start_address
                            /\ memory[i].start_address + memory[i].size
                                  <= memory'[j].start_address + memory'[j].size]_vars

\* a block was freed and merged with a free neighbour
C20_Witness ==
    /\ op = "deallocate_memory" /\ result = <<TRUE>>
    /\ Owns(prev_memory, arg_id)
    /\ used_memory < prev_used
    /\ Len(memory) < Len(prev_memory)

\* ---------------------------------------------------------------------
\* Seed scenarios

\* the last call was made on the seed state
OnSeed == prev_memory = SeedLedger /\ prev_used = 984

\* the seed ledger after allocate_memory(10, "Process-E")
SeedAfterE ==
    << [start_address |-> 0,    size |-> 2,   allocated |-> FALSE, process_id |-> ""],
       [start_address |-> 2,    size |-> 120, allocated |-> TRUE,  process_id |-> "Process-A"],
       [start_address |-> 122,  size |-> 10,  allocated |-> TRUE,  process_id |-> "Process-E"],
       [start_address |-> 132,  size |-> 10,  allocated |-> FALSE, process_id |-> ""],
       [start_address |-> 142,  size |-> 150, allocated |-> TRUE,  process_id |-> "Process-B"],
       [start_address |-> 292,  size |-> 160, allocated |-> TRUE,  process_id |-> "Process-C"],
       [start_address |-> 452,  size |-> 1,   allocated |-> FALSE, process_id |-> ""],
       [start_address |-> 453,  size |-> 4,   allocated |-> FALSE, process_id |-> ""],
       [start_address |-> 457,  size |-> 554, allocated |-> TRUE,  process_id |-> "Process-D"],
       [start_address |-> 1011, size |-> 124, allocated |-> FALSE, process_id |-> ""] >>

\* C21: in the seed state allocate_memory(10, "Process-E") succeeds, leaves
\* the 2 KB free block at 0 as it is, turns the 20 KB free block at 122 into
\* an allocated 10 KB block at 122 owned by Process-E followed by a new free
\* 10 KB block at 132, changes nothing else, and used_memory becomes 994.
C21_SeedAllocateTen ==
    (op = "allocate_memory" /\ OnSeed /\ arg_size = 10 /\ arg_id = "Process-E")
       => /\ result = <<TRUE, "success">>
          /\ memory = SeedAfterE
          /\ used_memory = 994

\* the call was made on the seed state and split the 20 KB block
C21_Witness ==
    /\ op = "allocate_memory" /\ OnSeed /\ arg_size = 10 /\ arg_id = "Process-E"
    /\ Len(memory) = Len(prev_memory) + 1
    /\ memory[1] = prev_memory[1]
    /\ memory[3].process_id = "Process-E"

\* C22: in the seed state allocate_memory(125, "Process-F") returns
\* (False, 'allocation_error'): the largest free block has 124 KB although
\* 151 KB are free in total; the ledger and used_memory stay unchanged.
C22_SeedAllocateTooLarge ==
    (op = "allocate_memory" /\ OnSeed /\ arg_size = 125 /\ arg_id = "Process-F")
       => /\ result = <<FALSE, "allocation_error">>
          /\ memory = SeedLedger
          /\ used_memory = 984
          /\ MaxFree(memory) = 124
          /\ total_memory_size - used_memory = 151
          /\ ~Owns(memory, "Process-F")

\* the request was made on the seed state, where more is free in total
\* than asked for and no single free block is large enough
C22_Witness ==
    /\ op = "allocate_memory" /\ OnSeed /\ arg_size = 125 /\ arg_id = "Process-F"
    /\ result[1] = FALSE
    /\ ~HasFit(prev_memory, arg_size)
    /\ total_memory_size - prev_used >= arg_size

\* the seed ledger after deallocate_memory("Process-B") and then
\* deallocate_memory("Process-C")
SeedAfterFreeingBC ==
    << [start_address |-> 0,    size |-> 2,   allocated |-> FALSE, process_id |-> ""],
       [start_address |-> 2,    size |-> 120, allocated |-> TRUE,  process_id |-> "Process-A"],
       [start_address |-> 122,  size |-> 335, allocated |-> FALSE, process_id |-> ""],
       [start_address |-> 457,  size |-> 554, allocated |-> TRUE,  process_id |-> "Process-D"],
       [start_address |-> 1011, size |-> 124, allocated |-> FALSE, process_id |-> ""] >>

\* the second call of a run was deallocate_memory("Process-C") and the first
\* one deallocate_memory("Process-B"): nothing else takes Process-B off the
\* seed ledger in one call
FreedBThenC ==
    /\ calls = 2
    /\ op = "deallocate_memory" /\ arg_id = "Process-C"
    /\ ~Owns(prev_memory, "Process-B")
    /\ prev_used = 984 - 150

\* C23: from the seed state, deallocate_memory("Process-B") followed by
\* deallocate_memory("Process-C") leaves one free block [122, 457) of size
\* 335 in place of the 20 KB block, B, C and the 1 KB and 4 KB blocks, no
\* other free block between addresses 122 and 457, and used_memory = 674.
C23_SeedFreeBThenC ==
    FreedBThenC
       => /\ result = <<TRUE>>
          /\ memory = SeedAfterFreeingBC
          /\ used_memory = 674
          /\ {k \in FreeBlocks(memory) :
                 memory[k].start_address >= 122 /\ memory[k].start_address < 457} = {3}

\* both calls were made and the second one merged the freed block with the
\* free blocks on both sides of it
C23_Witness ==
    /\ FreedBThenC
    /\ result = <<TRUE>>
    /\ Len(prev_memory) = 7
    /\ Len(memory) = 5

\* ---------------------------------------------------------------------
\* Message codes

\* C24: the message code allocate_memory returns is always one of
\* 'success', 'duplicate_process', 'allocation_error', the codes its
\* docstring enumerates.
C24_DocumentedCodes ==
    op = "allocate_memory"
       => result[2] \in {"success", "duplicate_process", "allocation_error"}

\* ---------------------------------------------------------------------
\* Best-Fit

\* the seed ledger after a Best-Fit allocation of 3 KB to id
SeedAfterBestFitThree(id) ==
    << [start_address |-> 0,    size |-> 2,   allocated |-> FALSE, process_id |-> ""],
       [start_address |-> 2,    size |-> 120, allocated |-> TRUE,  process_id |-> "Process-A"],
       [start_address |-> 122,  size |-> 20,  allocated |-> FALSE, process_id |-> ""],
       [start_address |-> 142,  size |-> 150, allocated |-> TRUE,  process_id |-> "Process-B"],
       [start_address |-> 292,  size |-> 160, allocated |-> TRUE,  process_id |-> "Process-C"],
       [start_address |-> 452,  size |-> 1,   allocated |-> FALSE, process_id |-> ""],
       [start_address |-> 453,  size |-> 3,   allocated |-> TRUE,  process_id |-> id],
       [start_address |-> 456,  size |-> 1,   allocated |-> FALSE, process_id |-> ""],
       [start_address |-> 457,  size |-> 554, allocated |-> TRUE,  process_id |-> "Process-D"],
       [start_address |-> 1011, size |-> 124, allocated |-> FALSE, process_id |-> ""] >>

RECURSIVE SizeSum(_, _)
SizeSum(mem, flag) ==
    IF mem = <<>> THEN 0
    ELSE (IF Head(mem).allocated = flag THEN Head(mem).size ELSE 0) + SizeSum(Tail(mem), flag)

\* C26: in every reachable state used_memory is the sum of the sizes of the
\* allocated blocks, total_memory_size - used_memory is the sum of the sizes
\* of the free blocks, 0 <= used_memory <= total_memory_size, and the used
\* and free figures get_memory_stats returns are these two sums.
C26_UsedIsSumOfAllocated ==
    /\ used_memory = SizeSum(memory, TRUE)
    /\ total_memory_size - used_memory = SizeSum(memory, FALSE)
    /\ 0 <= used_memory /\ used_memory <= total_memory_size
    /\ op = "get_memory_stats"
          => /\ result[1] = total_memory_size
             /\ result[2] = SizeSum(memory, TRUE)
             /\ result[3] = SizeSum(memory, FALSE)

\* get_memory_stats was called on a ledger that allocations and
\* deallocations had changed
C26_Witness ==
    /\ op = "get_memory_stats"
    /\ calls >= 3
    /\ result[3] = SizeSum(memory, FALSE)
    /\ result[3] # 151
    /\ Len(memory) # 9

\* ---------------------------------------------------------------------
\* Allocated blocks stay where they are

\* the allocated blocks of mem in ledger order, leaving out those of owner
\* id when skip holds
AllocatedSeq(mem, skip, id) ==
    LET Kept(b) == b.allocated /\ ~(skip /\ b.process_id = id)
    IN  SelectSeq(mem, Kept)

\* C27: across every allocate_memory, deallocate_memory and get_memory_stats
\* call the allocated blocks other than the one the call allocates or the
\* ones it frees are the same records (start address, size, owner) in the
\* same order: a split or a merge alters free blocks only.
C27_AllocatedBlocksStay ==
    [][op' # "reset_memory"
          => AllocatedSeq(memory, op' = "deallocate_memory", arg_id')
                = AllocatedSeq(memory', AllocSucceeded, arg_id')]_vars

\* a block allocated by a split is still in the ledger after another
\* owner's blocks were freed and merged with their free neighbours
C27_Witness ==
    /\ op = "deallocate_memory" /\ result = <<TRUE>>
    /\ arg_id # "Process-E"
    /\ Len(memory) < Len(prev_memory)
    /\ Owns(memory, "Process-E") /\ Owns(prev_memory, "Process-E")

\* ---------------------------------------------------------------------
\* Fragmentation clamp

\* C28: in every reachable state the size of the largest free block is at
\* most total_memory_size - used_memory, so unusable_free_space, their
\* difference, is never negative and the clamp to 0 is not taken.
C28_ClampNotTaken ==
    /\ MaxFree(memory) <= total_memory_size - used_memory
    /\ op = "get_memory_stats" => result[4].num = result[3] - MaxFree(memory)

\* fragmentation was computed on a ledger changed by earlier calls, with
\* free space outside the largest free block
C28_Witness ==
    /\ op = "get_memory_stats"
    /\ memory # SeedLedger
    /\ 0 < MaxFree(memory)
    /\ MaxFree(memory) < total_memory_size - used_memory

\* ---------------------------------------------------------------------
\* allocate_block is called within its contract

\* C29: allocate_memory returns success right after its call of
\* allocate_block; every such call targets a block that is free and has
\* size >= the requested size, so the block is taken (allocated to the id
\* with the requested size at the same start address) and used_memory
\* grows by the size: the branch that returns without mutating is not taken.
C29_AllocateBlockWithinContract ==
    [][AllocSucceeded
          => /\ used_memory' = used_memory + arg_size'
             /\ \E t \in DOMAIN memory :
                   /\ ~memory[t].allocated
                   /\ memory[t].size >= arg_size'
                   /\ memory'[t] = [start_address |-> memory[t].start_address,
                                    size |-> arg_size',
                                    allocated |-> TRUE,
                                    process_id |-> arg_id']
                   /\ \A j \in 1..(t - 1) : memory'[j] = memory[j]]_vars

\* allocate_block was called on a block behind a free block too small for
\* the request
C29_Witness ==
    /\ op = "allocate_memory" /\ result = <<TRUE, "success">>
    /\ used_memory = prev_used + arg_size
    /\ \E t \in DOMAIN prev_memory :
          /\ ~prev_memory[t].allocated /\ prev_memory[t].size < arg_size
          /\ memory[t] = prev_memory[t]
          /\ \E u \in DOMAIN memory : u > t /\ memory[u].process_id = arg_id /\ memory[u].allocated

\* ---------------------------------------------------------------------
\* Termination of the coalescing loop

\* what bounds the iterations left: a merge shortens the ledger by one and
\* keeps i, the other iterations advance i
LoopVariant == 2 * Len(memory) - merge_i

\* C30: the while loop of merge_adjacent_free_blocks terminates: inside the
\* loop i stays within the ledger, the next iteration or the exit is always
\* possible, every iteration lowers 2 * len(memory) - i (a merge keeps i and
\* shortens the ledger), and the iterations made never exceed twice the
\* length of the ledger at the call; the loop ends in the return True of
\* deallocate_memory.
C30_CoalescingLoopTerminates ==
    /\ [](pc = "merge"
            => /\ 1 <= merge_i /\ merge_i <= Len(memory)
               /\ iterations + LoopVariant <= 2 * Len(prev_memory) - 1
               /\ ENABLED merge_iteration)
    /\ [][pc = "merge"
            => \/ pc' = "idle" /\ result' = <<TRUE>> /\ ~(merge_i < Len(memory))
               \/ /\ pc' = "merge"
                  /\ iterations' = iterations + 1
                  /\ 0 < LoopVariant' /\ LoopVariant' < LoopVariant]_vars

\* the loop merged a pair, kept i, and went on to the end of the ledger
C30_Witness ==
    /\ pc = "merge"
    /\ Len(memory) < Len(prev_memory)
    /\ merge_i = Len(memory)
    /\ iterations >= Len(prev_memory) - 1

\* ---------------------------------------------------------------------
\* Release of every owner

\* no block of mem is allocated
NoneAllocated(mem) == \A k \in DOMAIN mem : ~mem[k].allocated

\* C31: once deallocate_memory has succeeded for every owner that held a
\* block, so that no allocated block is left, the ledger is one free block
\* with start address 0 and size total_memory_size, used_memory is 0 and
\* the fragmentation is 0 (as calculate_fragmentation computes it and as
\* get_memory_stats reports it).
C31_AllReleasedIsOneFreeBlock ==
    NoneAllocated(memory)
       => /\ memory = << [start_address |-> 0, size |-> total_memory_size,
                          allocated |-> FALSE, process_id |-> ""] >>
          /\ used_memory = 0
          /\ calculate_fragmentation(memory, total_memory_size, used_memory).num = 0
          /\ op = "get_memory_stats"
                => /\ result[2] = 0
                   /\ result[3] = total_memory_size
                   /\ result[4].num = 0

\* the last owner was deallocated by a successful call that merged its
\* block with the free blocks around it
C31_Witness ==
    /\ op = "deallocate_memory" /\ result = <<TRUE>>
    /\ NoneAllocated(memory)
    /\ ~NoneAllocated(prev_memory)
    /\ Len(memory) = 1
    /\ Len(prev_memory) >= 3

\* ---------------------------------------------------------------------
\* Double deallocation and reuse of an identifier

\* the last call was a successful deallocate_memory
JustFreed == op = "deallocate_memory" /\ result = <<TRUE>>

\* C32: right after a successful deallocate_memory(id), a second
\* deallocate_memory(id) returns False and changes neither the ledger nor
\* used_memory, and allocate_memory(s, id) with s the size just freed
\* returns (True, 'success') and gives id an allocated block of size s.
C32_DoubleFreeSafeAndIdReusable ==
    [][/\ (JustFreed /\ op' = "deallocate_memory" /\ arg_id' = arg_id)
          => (result' = <<FALSE>> /\ Unchanged)
       /\ (JustFreed /\ op' = "allocate_memory" /\ arg_id' = arg_id
              /\ arg_size' = prev_used - used_memory)
          => /\ result' = <<TRUE, "success">>
             /\ used_memory' = prev_used
             /\ \E k \in DOMAIN memory' :
                   /\ memory'[k].allocated
                   /\ memory'[k].process_id = arg_id
                   /\ memory'[k].size = arg_size']_vars

\* an identifier freed by the call before holds a block of the size it had
\* held, allocated again by this call
C32_Witness ==
    /\ op = "allocate_memory" /\ result = <<TRUE, "success">>
    /\ arg_id = "Process-B" /\ arg_size = 150
    /\ ~Owns(prev_memory, arg_id)
    /\ Owns(memory, arg_id)
    /\ prev_used = 984 - 150

====
